---- MODULE Spec2Model ----
(***************************************************************************)
(* A model of rust_bonus_types.py: the LLDB summary and synthetic          *)
(* providers for smol_str::SmolStr and smallvec::SmallVec<T, N>.           *)
(*                                                                         *)
(* The inspected value (what the host's SBValue tree and the process       *)
(* memory hold) is part of the state; the providers read it through host   *)
(* calls that can return an invalid child, fail a memory read or raise.    *)
(* Texts are sequences of code points; Python integers are unbounded, so   *)
(* no arithmetic wraps.                                                    *)
(***************************************************************************)
EXTENDS Integers, Sequences, FiniteSets, TLC

(*************************** bounds of the model ***************************)
MaxLen == 1
MaxSpan == 2
MaxRawLen == 5
MaxNameLen == 2
MaxIndex == 4

(**************************** program constants ****************************)
InlineMax == 23
StaticDiscr == 24
arc_header_size == 16
PY3 == TRUE

(***************************** the host's side *****************************)
\* The fields SmolStr code looks up by name, in the order of the code.
SmolFields ==
  { "$variants$", "$variant$24", "$discr$",
    "$variant$", "$variant$.value", "buf",
    "$variant$24.value", "$variant$24.__0", "str.data_ptr", "str.length",
    "$variant$25", "$variant$25.value", "$variant$25.__0", "ptr", "pointer",
    "arc.data_ptr", "arc.length" }

\* The host calls of the SmolStr code that are no field lookup.
SmolCalls == { "GetNonSyntheticValue", "GetLoadAddress", "ReadMemory", "decode" }

\* The fields SmallVec code looks up, and its other host calls.
VecFields ==
  { "len", "len.__0", "T", "raw",
    "heap", "heap.__0", "heap.pointer",
    "inline", "inline.value", "inline.value.value", "inline.value.value.value" }

VecCalls == { "GetNonSyntheticValue", "GetByteSize", "GetLoadAddress" }

NoFault == [kind |-> "none", at |-> "none"]

\* What can be wrong with an inspected value: one field invalid (IsValid() is
\* false), the memory unreadable (SBError set), or, when the host may raise,
\* one host call raising.
Faults(fields, calls, reads, raises) ==
  {NoFault}
    \cup [kind : {"invalid"}, at : fields]
    \cup (IF reads THEN {[kind |-> "fail", at |-> "ReadMemory"]} ELSE {})
    \cup (IF raises THEN [kind : {"raise"}, at : fields \cup calls] ELSE {})

\* The first thing that goes wrong along the host calls `steps`; at most one
\* thing is wrong with a value, so the order within `steps` does not matter.
Probe(v, steps) ==
  IF v.fault.kind \in {"invalid", "raise"} /\ v.fault.at \in steps
  THEN v.fault.kind
  ELSE "ok"

\* The addresses and element sizes the inspected values hold.
Addresses == {0, 1}
ElemSizes == {0, 1, 2}

\* The discriminants the inspected values hold: the short inline lengths and
\* the values around the Inline/Static/Heap boundaries.
Discrs == (0..MaxLen) \cup ((InlineMax - MaxSpan)..(StaticDiscr + MaxSpan))

\* The inspected process's memory: an ASCII byte at even addresses, a byte
\* that is no valid UTF-8 at odd ones.
MemoryByte(a) == IF a % 2 = 0 THEN 97 ELSE 255

\* process.ReadMemory(addr, n, error): n bytes of the inspected process.
ReadMemory(v, addr, n) == [i \in 1..n |-> MemoryByte(addr + i - 1)]

\* bytes.decode("utf-8", "replace"): ASCII bytes are themselves, a byte
\* that starts no valid sequence becomes U+FFFD.
Decode(data) == [i \in 1..Len(data) |-> IF data[i] < 128 THEN data[i] ELSE 65533]

SmolValues(raises) ==
  [ discr : Discrs, len : 0..MaxLen, ptr : Addresses, buf_addr : Addresses,
    fault : Faults(SmolFields, SmolCalls, TRUE, raises) ]

\* The values that differ from v in at most one field.
SmolChanges(v, raises) ==
  {v}
    \cup {[v EXCEPT !.discr = d] : d \in Discrs}
    \cup {[v EXCEPT !.len = n] : n \in 0..MaxLen}
    \cup {[v EXCEPT !.ptr = p] : p \in Addresses}
    \cup {[v EXCEPT !.buf_addr = p] : p \in Addresses}
    \cup {[v EXCEPT !.fault = f] : f \in Faults(SmolFields, SmolCalls, TRUE, raises)}

(*********************** SmolStrSyntheticProvider **************************)
\* The fields __init__ sets before it calls update().
SmolNew ==
  [variant_name |-> "", length |-> 0, content |-> <<>>, pointer |-> 0,
   content_address |-> 0]

\* The opening assignments with `self.pointer = 0` left out.
SmolResetMutant(self) ==
  [self EXCEPT !.variant_name = "", !.length = 0, !.content = <<>>,
               !.content_address = 0]

\* update(): the assignments that open it.
SmolReset(self) ==
  [self EXCEPT !.variant_name = "", !.length = 0, !.content = <<>>,
               !.pointer = 0, !.content_address = 0]

\* update(): the except clause.
SmolExcept(self) ==
  [self EXCEPT !.variant_name = "", !.length = 0, !.content = <<>>,
               !.pointer = 0, !.content_address = 0]

\* update(): which branch a discriminant selects.
SmolBranchMutant(d) ==
  IF d < InlineMax THEN "Inline" ELSE IF d = StaticDiscr THEN "Static" ELSE "Heap"

SmolBranch(d) ==
  IF d <= InlineMax THEN "Inline" ELSE IF d = StaticDiscr THEN "Static" ELSE "Heap"

\* update(): the read of `length` bytes at addr and their decoding, the same
\* in the three branches.
SmolRead(self, v, addr) ==
  IF Probe(v, {"ReadMemory"}) = "raise" THEN SmolExcept(self)
  ELSE IF v.fault.kind = "fail" THEN self
  ELSE IF PY3 /\ Probe(v, {"decode"}) = "raise" THEN [self EXCEPT !.content = <<>>]
  ELSE [self EXCEPT !.content = Decode(ReadMemory(v, addr, self.length))]

SmolInline(self, v) ==
  LET r1 == [self EXCEPT !.variant_name = "Inline", !.length = v.discr]
      p  == Probe(v, {"$variant$", "$variant$.value", "buf", "GetLoadAddress"})
  IN  IF r1.length = 0 THEN [r1 EXCEPT !.content = <<>>]
      ELSE IF p = "raise" THEN SmolExcept(r1)
      ELSE IF p = "invalid" THEN r1
      ELSE LET r2 == [r1 EXCEPT !.content_address = v.buf_addr]
           IN  SmolRead(r2, v, r2.content_address)

\* The Static branch with `or` written `and` in its validity test.
SmolStaticMutant(self, v) ==
  LET r1 == [self EXCEPT !.variant_name = "Static"]
      r2 == [r1 EXCEPT !.length = v.len, !.pointer = v.ptr, !.content_address = v.ptr]
  IN  IF r2.length = 0 THEN [r2 EXCEPT !.content = <<>>]
      ELSE SmolRead(r2, v, r2.pointer)

SmolStatic(self, v) ==
  LET r1 == [self EXCEPT !.variant_name = "Static"]
      p  == Probe(v, {"$variant$24.value", "$variant$24.__0", "str.data_ptr", "str.length"})
  IN  IF p = "raise" THEN SmolExcept(r1)
      ELSE IF p = "invalid" THEN r1
      ELSE LET r2 == [r1 EXCEPT !.length = v.len, !.pointer = v.ptr,
                                !.content_address = v.ptr]
           IN  IF r2.length = 0 THEN [r2 EXCEPT !.content = <<>>]
               ELSE SmolRead(r2, v, r2.pointer)

\* The address of the characters behind an Arc<str> pointer: past the strong
\* and weak counts of ArcInner.
StringDataPtrMutant(pointer) == pointer + 8

StringDataPtr(pointer) == pointer + arc_header_size

SmolHeap(self, v) ==
  LET r1 == [self EXCEPT !.variant_name = "Heap"]
      p  == Probe(v, {"$variant$25", "$variant$25.value", "$variant$25.__0", "ptr",
                      "pointer", "arc.data_ptr", "arc.length"})
  IN  IF p = "raise" THEN SmolExcept(r1)
      ELSE IF p = "invalid" THEN r1
      ELSE LET r2 == [r1 EXCEPT !.length = v.len, !.pointer = v.ptr]
           IN  IF r2.length = 0 THEN [r2 EXCEPT !.content = <<>>]
               ELSE LET string_data_ptr == StringDataPtr(r2.pointer)
                        r3 == [r2 EXCEPT !.content_address = string_data_ptr]
                    IN  SmolRead(r3, v, string_data_ptr)

\* SmolStrSyntheticProvider.update() on the value v.
SmolUpdate(self, v) ==
  LET r0 == SmolReset(self)
      p  == Probe(v, {"GetNonSyntheticValue", "$variants$", "$variant$24", "$discr$"})
  IN  IF p = "raise" THEN SmolExcept(r0)
      ELSE IF p = "invalid" THEN r0
      ELSE CASE SmolBranch(v.discr) = "Inline" -> SmolInline(r0, v)
             [] SmolBranch(v.discr) = "Static" -> SmolStatic(r0, v)
             [] OTHER -> SmolHeap(r0, v)

\* SmolStrSyntheticProvider.__init__.
SmolInit(v) == SmolUpdate(SmolNew, v)

\* The fields update() looks up on v when every field before them is valid.
SmolHeadFields == {"$variants$", "$variant$24", "$discr$"}
SmolLookedUp(v) ==
  SmolHeadFields \cup
    CASE SmolBranch(v.discr) = "Inline" ->
           IF v.discr = 0 THEN {} ELSE {"$variant$", "$variant$.value", "buf"}
      [] SmolBranch(v.discr) = "Static" ->
           {"$variant$24.value", "$variant$24.__0", "str.data_ptr", "str.length"}
      [] OTHER ->
           {"$variant$25", "$variant$25.value", "$variant$25.__0", "ptr", "pointer",
            "arc.data_ptr", "arc.length"}


(***************************** returned values *****************************)
\* What an entry point hands back to the host: None, an integer, a text, a
\* child value (an SBValue made by CreateValueFromExpression, which carries
\* the text or number the expression holds, or by CreateValueFromAddress,
\* which carries an address and an element count), or an exception that
\* escapes the entry point.
Out(tag, name, n, addr, str, text) ==
  [tag |-> tag, name |-> name, n |-> n, addr |-> addr, str |-> str, text |-> text]

None == Out("None", "", 0, 0, "", <<>>)
Escapes == Out("raise", "", 0, 0, "", <<>>)
IntOut(k) == Out("int", "", k, 0, "", <<>>)
TextOut(t) == Out("text", "", 0, 0, "", t)
ExprChild(name, n, addr, str) == Out("expr", name, n, addr, str, <<>>)
AddrChild(name, n, addr) == Out("addr", name, n, addr, "", <<>>)

IsChild(o) == o.tag \in {"expr", "addr"}

Quote == <<34>>
EmptySummary == Quote \o Quote

\* num_children() with no children for an empty record.
SmolNumChildrenMutant(self) ==
  IF self.variant_name \in {"Static", "Heap"} THEN 4
  ELSE IF self.variant_name = "" THEN 0 ELSE 3

\* num_children()
SmolNumChildren(self) ==
  IF self.variant_name \in {"Static", "Heap"} THEN 4 ELSE 3

SmolNames == {"variant", "length", "content", "pointer", "other"}

\* get_child_index(name)
SmolGetChildIndex(self, name) ==
  IF name = "variant" THEN 0
  ELSE IF name = "length" THEN 1
  ELSE IF name = "content" THEN 2
  ELSE IF name = "pointer" THEN 3
  ELSE -1

\* get_child_at_index(index) with the pointer child shown for every variant.
SmolGetChildAtIndexMutant(self, index, host) ==
  IF index < 0 THEN None
  ELSE IF index \in 0..3 /\ host = "raise" THEN None
  ELSE IF index = 0 THEN ExprChild("variant", 0, 0, self.variant_name)
  ELSE IF index = 1 THEN ExprChild("length", self.length, 0, "")
  ELSE IF index = 2
    THEN IF self.content_address # 0 /\ self.length > 0
         THEN AddrChild("content", self.length, self.content_address)
         ELSE ExprChild("content", 0, 0, "")
  ELSE IF index = 3 THEN ExprChild("pointer", 0, self.pointer, "")
  ELSE None

\* get_child_at_index(index); host = "raise" when the host call that makes
\* the child raises.
SmolGetChildAtIndex(self, index, host) ==
  IF index < 0 THEN None
  ELSE IF index = 0
    THEN IF host = "raise" THEN None
         ELSE ExprChild("variant", 0, 0, self.variant_name)
  ELSE IF index = 1
    THEN IF host = "raise" THEN None
         ELSE ExprChild("length", self.length, 0, "")
  ELSE IF index = 2
    THEN IF host = "raise" THEN None
         ELSE IF self.content_address # 0 /\ self.length > 0
         THEN AddrChild("content", self.length, self.content_address)
         ELSE ExprChild("content", 0, 0, "")
  ELSE IF index = 3 /\ self.variant_name \in {"Static", "Heap"}
    THEN IF host = "raise" THEN None
         ELSE ExprChild("pointer", 0, self.pointer, "")
  ELSE None

(************************* SmolStrSummaryProvider **************************)
\* The read and decoding that end each branch of the summary provider.
SummaryRead(v, addr, length) ==
  IF Probe(v, {"ReadMemory"}) = "raise" THEN Escapes
  ELSE IF v.fault.kind = "fail" THEN TextOut(EmptySummary)
  ELSE IF PY3 /\ Probe(v, {"decode"}) = "raise" THEN TextOut(EmptySummary)
  ELSE TextOut(Quote \o Decode(ReadMemory(v, addr, length)) \o Quote)

\* A run of lookups outside any try: a raise escapes, an invalid field
\* gives the empty summary, otherwise `rest`.
SummaryLookups(v, steps, rest) ==
  IF Probe(v, steps) = "raise" THEN Escapes
  ELSE IF Probe(v, steps) = "invalid" THEN TextOut(EmptySummary)
  ELSE rest

SmolStrSummaryProvider(v) ==
  SummaryLookups(v, {"GetNonSyntheticValue", "$variants$", "$variant$24", "$discr$"},
    LET discriminant == v.discr IN
    IF discriminant <= InlineMax
    THEN IF discriminant = 0 THEN TextOut(EmptySummary)
         ELSE SummaryLookups(v, {"$variant$", "$variant$.value", "buf", "GetLoadAddress"},
                SummaryRead(v, v.buf_addr, discriminant))
    ELSE IF discriminant = StaticDiscr
    THEN SummaryLookups(v, {"$variant$24.value", "$variant$24.__0", "str.data_ptr",
                            "str.length"},
           IF v.len = 0 THEN TextOut(EmptySummary)
           ELSE SummaryRead(v, v.ptr, v.len))
    ELSE SummaryLookups(v, {"$variant$25", "$variant$25.value", "$variant$25.__0",
                            "ptr", "pointer", "arc.data_ptr", "arc.length"},
           IF v.len = 0 THEN TextOut(EmptySummary)
           ELSE SummaryRead(v, v.ptr + arc_header_size, v.len)))


(*********************** SmallVecSyntheticProvider *************************)
VecValues(raises) ==
  [ raw_len : 0..MaxRawLen, elem_size : ElemSizes, heap_ptr : Addresses,
    inline_addr : Addresses, fault : Faults(VecFields, VecCalls, FALSE, raises) ]

\* The values that differ from v in at most one field.
VecChanges(v, raises) ==
  {v}
    \cup {[v EXCEPT !.raw_len = n] : n \in 0..MaxRawLen}
    \cup {[v EXCEPT !.elem_size = n] : n \in ElemSizes}
    \cup {[v EXCEPT !.heap_ptr = p] : p \in Addresses}
    \cup {[v EXCEPT !.inline_addr = p] : p \in Addresses}
    \cup {[v EXCEPT !.fault = f] : f \in Faults(VecFields, VecCalls, FALSE, raises)}

\* The fields __init__ sets before it calls update(); element_type is
\* "None", "invalid" (an SBType whose IsValid() is false) or "valid".
VecNew ==
  [length |-> 0, is_heap |-> FALSE, heap_ptr |-> 0, inline_data_address |-> 0,
   element_size |-> 0, element_type |-> "None"]

\* update(): the assignments that open it.
VecReset(self) ==
  [self EXCEPT !.length = 0, !.is_heap = FALSE, !.heap_ptr = 0,
               !.inline_data_address = 0, !.element_size = 0, !.element_type = "None"]

\* update(): the except clause, which leaves element_size and element_type.
VecExcept(self) ==
  [self EXCEPT !.length = 0, !.is_heap = FALSE, !.heap_ptr = 0,
               !.inline_data_address = 0]

\* (len_value & 1) == 1
TagBit(len_value) == len_value % 2 = 1

\* len_value >> 1 with the shift left out.
ActualLengthMutant(len_value) == len_value

\* len_value >> 1

ActualLength(len_value) == len_value \div 2

VecForceEmpty(self) == [self EXCEPT !.length = 0]

\* The heap branch without the test of a null heap pointer.
VecHeapMutant(self, v) ==
  LET p == Probe(v, {"heap", "heap.__0", "heap.pointer"})
  IN  IF p = "raise" THEN VecExcept(self)
      ELSE IF p = "invalid" THEN VecForceEmpty(self)
      ELSE [self EXCEPT !.heap_ptr = v.heap_ptr]

VecHeap(self, v) ==
  LET p == Probe(v, {"heap", "heap.__0", "heap.pointer"})
  IN  IF p = "raise" THEN VecExcept(self)
      ELSE IF p = "invalid" THEN VecForceEmpty(self)
      ELSE LET r == [self EXCEPT !.heap_ptr = v.heap_ptr]
           IN  IF r.heap_ptr = 0 THEN VecForceEmpty(r) ELSE r

VecInline(self, v) ==
  LET p == Probe(v, {"inline", "inline.value", "inline.value.value",
                     "inline.value.value.value", "GetLoadAddress"})
  IN  IF p = "raise" THEN VecExcept(self)
      ELSE IF p = "invalid" THEN VecForceEmpty(self)
      ELSE LET r == [self EXCEPT !.inline_data_address = v.inline_addr]
           IN  IF r.inline_data_address = 0 THEN VecForceEmpty(r) ELSE r

\* update() from the element type on.
VecStorage(self, v) ==
  IF Probe(v, {"T"}) = "raise" THEN VecExcept(self)
  ELSE IF Probe(v, {"T"}) = "invalid"
    THEN VecForceEmpty([self EXCEPT !.element_type = "invalid"])
  ELSE LET r2 == [self EXCEPT !.element_type = "valid"] IN
    IF Probe(v, {"GetByteSize"}) = "raise" THEN VecExcept(r2)
    ELSE LET r3 == [r2 EXCEPT !.element_size = v.elem_size] IN
      IF r3.element_size = 0 THEN VecForceEmpty(r3)
      ELSE IF Probe(v, {"raw"}) = "raise" THEN VecExcept(r3)
      ELSE IF Probe(v, {"raw"}) = "invalid" THEN VecForceEmpty(r3)
      ELSE IF r3.is_heap THEN VecHeap(r3, v) ELSE VecInline(r3, v)

\* SmallVecSyntheticProvider.update() on the value v.
VecUpdate(self, v) ==
  LET r0 == VecReset(self)
      p  == Probe(v, {"GetNonSyntheticValue", "len", "len.__0"})
  IN  IF p = "raise" THEN VecExcept(r0)
      ELSE IF p = "invalid" THEN r0
      ELSE LET len_value == v.raw_len
               r1 == [r0 EXCEPT !.is_heap = TagBit(len_value),
                                !.length = ActualLength(len_value)]
           IN  VecStorage(r1, v)

\* SmallVecSyntheticProvider.__init__.
VecInit(v) == VecUpdate(VecNew, v)

\* The fields update() looks up on v when every field before them is valid.
VecHeadFields == {"len", "len.__0"}
VecLookedUp(v) ==
  VecHeadFields \cup {"T"} \cup
    (IF v.elem_size = 0 THEN {}
     ELSE {"raw"} \cup
            (IF TagBit(v.raw_len)
             THEN {"heap", "heap.__0", "heap.pointer"}
             ELSE {"inline", "inline.value", "inline.value.value",
                   "inline.value.value.value"}))

\* num_children()
VecNumChildren(self) == self.length

\* Child names: texts over the characters of "[1]".
NameChars == {"[", "]", "1"}
VecNames == UNION {[1..n -> NameChars] : n \in 0..MaxNameLen}

\* str.lstrip("[") and str.rstrip("]")
RECURSIVE Lstrip(_)
Lstrip(s) == IF s # <<>> /\ Head(s) = "[" THEN Lstrip(Tail(s)) ELSE s

RECURSIVE Rstrip(_)
Rstrip(s) ==
  IF s # <<>> /\ s[Len(s)] = "]" THEN Rstrip(SubSeq(s, 1, Len(s) - 1)) ELSE s

\* int(s) for a text of decimal digits.
Digits == {"0", "1"}
DigitValue(c) == IF c = "0" THEN 0 ELSE 1

RECURSIVE IntOf(_)
IntOf(s) ==
  IF s = <<>> THEN 0
  ELSE 10 * IntOf(SubSeq(s, 1, Len(s) - 1)) + DigitValue(s[Len(s)])

\* get_child_index(name): int() raises ValueError on anything but digits.
VecGetChildIndex(name) ==
  LET s == Rstrip(Lstrip(name))
  IN  IF s # <<>> /\ \A i \in 1..Len(s) : s[i] \in Digits THEN IntOf(s) ELSE -1

\* get_child_at_index(index) with the element size left out of the address.
VecGetChildAtIndexMutant(self, index, host) ==
  IF index < 0 \/ index >= self.length THEN None
  ELSE IF self.element_type = "None" THEN None
  ELSE IF host = "raise:IsValid" THEN Escapes
  ELSE IF self.element_type # "valid" THEN None
  ELSE IF self.element_size = 0 THEN None
  ELSE IF self.is_heap
    THEN IF self.heap_ptr = 0 THEN None
         ELSE IF host = "raise:CreateValueFromAddress" THEN None
         ELSE AddrChild("[%d]", index, self.heap_ptr + index)
    ELSE IF self.inline_data_address = 0 THEN None
         ELSE IF host = "raise:CreateValueFromAddress" THEN None
         ELSE AddrChild("[%d]", index, self.inline_data_address + index)

\* get_child_at_index(index); host names the host call that raises, if any:
\* element_type.IsValid() stands before the try, CreateValueFromAddress in it.
VecGetChildAtIndex(self, index, host) ==
  IF index < 0 \/ index >= self.length THEN None
  ELSE IF self.element_type = "None" THEN None
  ELSE IF host = "raise:IsValid" THEN Escapes
  ELSE IF self.element_type # "valid" THEN None
  ELSE IF self.element_size = 0 THEN None
  ELSE IF self.is_heap
    THEN IF self.heap_ptr = 0 THEN None
         ELSE IF host = "raise:CreateValueFromAddress" THEN None
         ELSE AddrChild("[%d]", index, self.heap_ptr + index * self.element_size)
    ELSE IF self.inline_data_address = 0 THEN None
         ELSE IF host = "raise:CreateValueFromAddress" THEN None
         ELSE AddrChild("[%d]", index,
                        self.inline_data_address + index * self.element_size)

(************************* SmallVecSummaryProvider *************************)
\* "%d" % n for n >= 0
RECURSIVE FormatD(_)
FormatD(n) == IF n < 10 THEN <<48 + n>> ELSE FormatD(n \div 10) \o <<48 + (n % 10)>>

SizeEq == <<115, 105, 122, 101, 61>>
SizeUnknown == SizeEq \o <<63>>

SmallVecSummaryProvider(v) ==
  LET p == Probe(v, {"GetNonSyntheticValue", "len", "len.__0"})
  IN  IF p = "raise" THEN Escapes
      ELSE IF p = "invalid" THEN TextOut(SizeUnknown)
      ELSE LET len_value == v.raw_len
               actual_length == len_value \div 2
           IN  TextOut(SizeEq \o FormatD(actual_length))


(******************************** the state ********************************)
VARIABLES
  live,        \* which provider the host has constructed: "SmolStr" or "SmallVec"
  hostRaises,  \* whether host calls may raise (they may not under Spec)
  strObj,      \* the inspected SmolStr value (valobj), as the host shows it
  smol,        \* the SmolStrSyntheticProvider's fields
  vecObj,      \* the inspected SmallVec value (valobj)
  vec,         \* the SmallVecSyntheticProvider's fields
  ret          \* the last entry point called, its arguments and what it returned

vars == <<live, hostRaises, strObj, smol, vecObj, vec, ret>>

Call(op, idx, name, chars, out) ==
  [op |-> op, idx |-> idx, name |-> name, chars |-> chars, out |-> out]

Indices == -1..MaxIndex

\* The values of the provider that is not constructed.
NoStrObj ==
  [discr |-> 0, len |-> 0, ptr |-> 0, buf_addr |-> 0, fault |-> NoFault]
NoVecObj ==
  [raw_len |-> 0, elem_size |-> 0, heap_ptr |-> 0, inline_addr |-> 0, fault |-> NoFault]

\* The host constructs one synthetic provider over a value; __init__ ends
\* with update().
Construct(raises) ==
  /\ hostRaises = raises
  /\ live \in {"SmolStr", "SmallVec"}
  /\ IF live = "SmolStr"
     THEN /\ strObj \in SmolValues(raises)
          /\ smol = SmolInit(strObj)
          /\ vecObj = NoVecObj
          /\ vec = VecNew
          /\ ret = Call("SmolStr.__init__", 0, "", <<>>, None)
     ELSE /\ vecObj \in VecValues(raises)
          /\ vec = VecInit(vecObj)
          /\ strObj = NoStrObj
          /\ smol = SmolNew
          /\ ret = Call("SmallVec.__init__", 0, "", <<>>, None)

Init == Construct(FALSE)
InitRaise == Construct(TRUE)

\* The inspected process runs on, at most one field of the value changes,
\* and the host calls update().
SmolStr_update ==
  /\ live = "SmolStr"
  /\ \E v \in SmolChanges(strObj, hostRaises) :
       /\ strObj' = v
       /\ smol' = SmolUpdate(smol, v)
  /\ ret' = Call("SmolStr.update", 0, "", <<>>, None)
  /\ UNCHANGED <<live, hostRaises, vecObj, vec>>

SmolStr_summary ==
  /\ live = "SmolStr"
  /\ ret' = Call("SmolStrSummaryProvider", 0, "", <<>>, SmolStrSummaryProvider(strObj))
  /\ UNCHANGED <<live, hostRaises, strObj, smol, vecObj, vec>>

SmolStr_num_children ==
  /\ live = "SmolStr"
  /\ ret' = Call("SmolStr.num_children", 0, "", <<>>, IntOut(SmolNumChildren(smol)))
  /\ UNCHANGED <<live, hostRaises, strObj, smol, vecObj, vec>>

SmolStr_get_child_index ==
  /\ live = "SmolStr"
  /\ \E name \in SmolNames :
       ret' = Call("SmolStr.get_child_index", 0, name, <<>>,
                   IntOut(SmolGetChildIndex(smol, name)))
  /\ UNCHANGED <<live, hostRaises, strObj, smol, vecObj, vec>>

SmolStr_get_child_at_index ==
  /\ live = "SmolStr"
  /\ \E index \in Indices, host \in {"ok"} \cup (IF hostRaises THEN {"raise"} ELSE {}) :
       ret' = Call("SmolStr.get_child_at_index", index, "", <<>>,
                   SmolGetChildAtIndex(smol, index, host))
  /\ UNCHANGED <<live, hostRaises, strObj, smol, vecObj, vec>>

SmallVec_update ==
  /\ live = "SmallVec"
  /\ \E v \in VecChanges(vecObj, hostRaises) :
       /\ vecObj' = v
       /\ vec' = VecUpdate(vec, v)
  /\ ret' = Call("SmallVec.update", 0, "", <<>>, None)
  /\ UNCHANGED <<live, hostRaises, strObj, smol>>

SmallVec_summary ==
  /\ live = "SmallVec"
  /\ ret' = Call("SmallVecSummaryProvider", 0, "", <<>>, SmallVecSummaryProvider(vecObj))
  /\ UNCHANGED <<live, hostRaises, strObj, smol, vecObj, vec>>

SmallVec_num_children ==
  /\ live = "SmallVec"
  /\ ret' = Call("SmallVec.num_children", 0, "", <<>>, IntOut(VecNumChildren(vec)))
  /\ UNCHANGED <<live, hostRaises, strObj, smol, vecObj, vec>>

SmallVec_get_child_index ==
  /\ live = "SmallVec"
  /\ \E name \in VecNames :
       ret' = Call("SmallVec.get_child_index", 0, "", name,
                   IntOut(VecGetChildIndex(name)))
  /\ UNCHANGED <<live, hostRaises, strObj, smol, vecObj, vec>>

SmallVec_get_child_at_index ==
  /\ live = "SmallVec"
  /\ \E index \in Indices,
        host \in {"ok"} \cup (IF hostRaises
                              THEN {"raise:IsValid", "raise:CreateValueFromAddress"}
                              ELSE {}) :
       ret' = Call("SmallVec.get_child_at_index", index, "", <<>>,
                   VecGetChildAtIndex(vec, index, host))
  /\ UNCHANGED <<live, hostRaises, strObj, smol, vecObj, vec>>

Next ==
  \/ SmolStr_update
  \/ SmolStr_summary
  \/ SmolStr_num_children
  \/ SmolStr_get_child_index
  \/ SmolStr_get_child_at_index
  \/ SmallVec_update
  \/ SmallVec_summary
  \/ SmallVec_num_children
  \/ SmallVec_get_child_index
  \/ SmallVec_get_child_at_index

\* Host calls keep to their interface: they fail by an invalid value or an
\* error flag and never raise.
Spec == Init /\ [][Next]_vars

\* Host calls may also raise.
SpecRaise == InitRaise /\ [][Next]_vars


(******************************** the claims *******************************)
\* Every SmolStr state is one just decoded: the record is update()'s result
\* on strObj, and ret is the call made on that record since.

MissingStr == live = "SmolStr" /\ strObj.fault.kind = "invalid"
MissingVec == live = "SmallVec" /\ vecObj.fault.kind = "invalid"

\* C1: whenever update() reads a discriminant d, 0 <= d <= 23 gives variant
\* Inline with length d, d = 24 gives Static and d >= 25 gives Heap.
C1_Classification ==
  (live = "SmolStr" /\ ~(MissingStr /\ strObj.fault.at \in SmolHeadFields)) =>
    LET d == strObj.discr
    IN  /\ (0 <= d /\ d <= 23) => (smol.variant_name = "Inline" /\ smol.length = d)
        /\ d = 24 => smol.variant_name = "Static"
        /\ d >= 25 => smol.variant_name = "Heap"
        /\ smol.variant_name \in {"Inline", "Static", "Heap"}

C1_Witness ==
  /\ ret.op = "SmolStr.update"
  /\ strObj.discr = 23 /\ smol.variant_name = "Inline" /\ smol.length = 23
  /\ strObj.fault.kind = "invalid" /\ strObj.fault.at = "buf"

\* C2: whenever update() reads the raw length r, is_heap holds iff r is odd,
\* and when the element type, the raw union and the base address resolve,
\* length is r >> 1.
C2_TagAndCount ==
  (live = "SmallVec" /\ ~(MissingVec /\ vecObj.fault.at \in VecHeadFields)) =>
    LET r == vecObj.raw_len
        base == IF r % 2 = 1 THEN vecObj.heap_ptr ELSE vecObj.inline_addr
    IN  /\ vec.is_heap <=> (r % 2 = 1)
        /\ (vecObj.fault = NoFault /\ vecObj.elem_size >= 1 /\ base # 0) =>
             (2 * vec.length <= r /\ r <= 2 * vec.length + 1)

C2_Witness ==
  /\ ret.op = "SmallVec.update"
  /\ vecObj.raw_len = 5 /\ vec.is_heap /\ vec.length = 2 /\ vec.heap_ptr # 0

HeapResolved ==
  /\ live = "SmolStr" /\ smol.variant_name = "Heap"
  /\ ~(MissingStr /\ strObj.fault.at \in SmolLookedUp(strObj))

\* C3 as stated: a Heap record whose data_ptr and length resolved has
\* content_address = pointer + 16, for every length.
C3_Original == HeapResolved => smol.content_address = smol.pointer + 16

\* C3, amended: a Heap record whose data_ptr and length resolved has
\* content_address = pointer + 16 when length > 0, and 0 when length = 0.
C3_HeapAddress ==
  HeapResolved =>
    smol.content_address = (IF smol.length > 0 THEN smol.pointer + 16 ELSE 0)

C3_Witness ==
  /\ ret.op = "SmolStr.update" /\ HeapResolved
  /\ smol.length = 1 /\ smol.pointer = 1 /\ smol.content_address = 17

\* C4: after update(), whatever the variant, length = 0 implies content = ""
\* and content_address = 0.
C4_EmptyHasNoAddress ==
  (live = "SmolStr" /\ smol.length = 0) =>
    (smol.content = <<>> /\ smol.content_address = 0)

\* C5 as stated: a field update() looks up and finds missing or invalid
\* leaves the empty record.
C5_Original ==
  (MissingStr /\ strObj.fault.at \in SmolLookedUp(strObj)) =>
    (smol.variant_name = "" /\ smol.length = 0 /\ smol.content = <<>>)

\* C5, amended: a missing $variants$, $variant$24 or $discr$ leaves the empty
\* record; a field missing after the discriminant was read leaves content "",
\* pointer 0 and content_address 0, with variant_name as the discriminant
\* classifies it and length the discriminant (Inline) or 0 (Static, Heap).
C5_MissingField ==
  (MissingStr /\ strObj.fault.at \in SmolLookedUp(strObj)) =>
    /\ smol.content = <<>> /\ smol.pointer = 0 /\ smol.content_address = 0
    /\ IF strObj.fault.at \in SmolHeadFields
       THEN smol.variant_name = "" /\ smol.length = 0
       ELSE LET d == strObj.discr
            IN  /\ smol.variant_name =
                     (IF d <= 23 THEN "Inline" ELSE IF d = 24 THEN "Static" ELSE "Heap")
                /\ smol.length = (IF d <= 23 THEN d ELSE 0)

C5_Witness ==
  /\ ret.op = "SmolStr.update"
  /\ MissingStr /\ strObj.fault.at = "str.length" /\ strObj.discr = 24
  /\ strObj.len = 1 /\ strObj.ptr = 1
  /\ smol.variant_name = "Static"

\* C6: get_child_at_index(i) returns a view at base_address + i * element_size
\* when 0 <= i < length, base_address being heap_ptr for Heap storage and
\* inline_data_address for Inline storage, and no child otherwise.
C6_ElementAt ==
  ret.op = "SmallVec.get_child_at_index" =>
    LET i == ret.idx
        base == IF vec.is_heap THEN vec.heap_ptr ELSE vec.inline_data_address
    IN  IF 0 <= i /\ i < vec.length
        THEN ret.out.tag = "addr" /\ ret.out.addr = base + i * vec.element_size
        ELSE ret.out = None

C6_Witness ==
  /\ ret.op = "SmallVec.get_child_at_index" /\ ret.idx = 1
  /\ vec.is_heap /\ vec.element_size = 2 /\ ret.out.tag = "addr"
  /\ ret.out.addr = vec.heap_ptr + 2

\* C7: children 0, 1, 2 (variant, length, content) are always there; child 3
\* (pointer) is there, and num_children() is 4, exactly when variant_name is
\* Static or Heap; otherwise num_children() is 3 and child 3 is no child.
C7_Children ==
  LET pointed == smol.variant_name \in {"Static", "Heap"}
  IN  /\ ret.op = "SmolStr.num_children" => ret.out.n = (IF pointed THEN 4 ELSE 3)
      /\ ret.op = "SmolStr.get_child_at_index" =>
           /\ ret.idx = 0 => (IsChild(ret.out) /\ ret.out.name = "variant")
           /\ ret.idx = 1 => (IsChild(ret.out) /\ ret.out.name = "length")
           /\ ret.idx = 2 => (IsChild(ret.out) /\ ret.out.name = "content")
           /\ ret.idx = 3 => (IsChild(ret.out) <=> pointed)
           /\ (ret.idx = 3 /\ pointed) => ret.out.name = "pointer"

C7_Witness ==
  /\ ret.op = "SmolStr.get_child_at_index" /\ ret.idx = 3
  /\ smol.variant_name = "Inline" /\ smol.length = 1 /\ ret.out = None

\* C8: the N that SmallVecSummaryProvider prints as "size=N" is the length
\* update() computes from the same value, so an unreadable vector prints
\* size=0.
C8_SummaryIsLength ==
  (ret.op = "SmallVecSummaryProvider" /\ ret.out.text # SizeUnknown) =>
    ret.out = TextOut(SizeEq \o FormatD(vec.length))

MissingLookedUp ==
  \/ MissingStr /\ strObj.fault.at \in SmolLookedUp(strObj)
  \/ MissingVec /\ vecObj.fault.at \in VecLookedUp(vecObj)

C10_NoEscape == ret.out.tag # "raise"


\* C11: after any sequence of update() calls, failed ones included, every
\* field of the record is what a newly constructed provider decodes from the
\* value as it now is, and one more update() on the unchanged value leaves
\* the record as it is.
C11_Fresh ==
  /\ live = "SmolStr" => (smol = SmolInit(strObj) /\ SmolUpdate(smol, strObj) = smol)
  /\ live = "SmallVec" => (vec = VecInit(vecObj) /\ VecUpdate(vec, vecObj) = vec)

C11_Witness ==
  /\ ret.op = "SmolStr.update"
  /\ strObj.fault = NoFault /\ strObj.discr = 1
  /\ smol.variant_name = "Inline" /\ smol.pointer = 0 /\ smol.content = <<65533>>


\* C12: a nonzero length comes only with a valid element type, an element
\* size >= 1 and a nonzero base address of the storage in use, so for
\* 0 <= i < length get_child_at_index(i) is never without a child for want
\* of an address or a type.
C12_ReadableOrEmpty ==
  /\ vec.length > 0 =>
       /\ vec.element_type = "valid" /\ vec.element_size >= 1
       /\ IF vec.is_heap THEN vec.heap_ptr # 0 ELSE vec.inline_data_address # 0
  /\ (ret.op = "SmallVec.get_child_at_index" /\ 0 <= ret.idx /\ ret.idx < vec.length) =>
       IsChild(ret.out)

C12_Witness ==
  /\ ret.op = "SmallVec.get_child_at_index" /\ ret.idx = 1
  /\ vec.length = 2 /\ ~vec.is_heap /\ vec.inline_data_address # 0
  /\ IsChild(ret.out)

\* C13: for both providers get_child_index(name) returns -1 or an index i
\* with 0 <= i < num_children().
C13_IndexInRange ==
  /\ ret.op = "SmolStr.get_child_index" =>
       (ret.out.n = -1 \/ (0 <= ret.out.n /\ ret.out.n < SmolNumChildren(smol)))
  /\ ret.op = "SmallVec.get_child_index" =>
       (ret.out.n = -1 \/ (0 <= ret.out.n /\ ret.out.n < VecNumChildren(vec)))

====
